---- MODULE Spec2Model ----
(***************************************************************************)
(* Model of rdflib/plugins/sparql/operators.py: the evaluation functions   *)
(* of SPARQL expressions (EBV, the logical combinators, IN / NOT IN, the   *)
(* additive and multiplicative operators with their date/time branch, the  *)
(* builtins ABS, CEIL, FLOOR, TIMEZONE and EXISTS), simplify and the       *)
(* registry of custom functions.                                           *)
(*                                                                         *)
(* Every evaluation function is a pure function of its expression node; it *)
(* is written as an operator that yields an outcome: Return(v) or          *)
(* Raise(exc).  An action applies one function to one node drawn from a    *)
(* bounded set (held in `call`) and records the outcome in `result`.       *)
(* Strings whose characters the code inspects are sequences of one-        *)
(* character strings.                                                      *)
(***************************************************************************)
EXTENDS Integers, Sequences, FiniteSets, TLC

VARIABLES call, result, registry, bindings

vars == <<call, result, registry, bindings>>

\* Bounds of the model.
MaxList == 3
MaxPairs == 2
MaxNodes == 5
MaxSolutions == 3
MaxOffsetHours == 5

(***************************************************************************)
(* Terms                                                                   *)
(***************************************************************************)
XSD_boolean == "xsd:boolean"
XSD_string == "xsd:string"
XSD_integer == "xsd:integer"
XSD_decimal == "xsd:decimal"
XSD_float == "xsd:float"
XSD_double == "xsd:double"
XSD_int == "xsd:int"
XSD_date == "xsd:date"
XSD_dateTime == "xsd:dateTime"
XSD_time == "xsd:time"
XSD_duration == "xsd:duration"
XSD_dayTimeDuration == "xsd:dayTimeDuration"
XSD_yearMonthDuration == "xsd:yearMonthDuration"
\* XSD.Duration, as isCompatibleDateTimeDatatype spells it: an IRI of the
\* XSD namespace that differs from XSD.duration and that no literal of the
\* duration family carries.
XSD_Duration == "xsd:Duration"
EX_custom == "ex:custom"
NoDatatype == "None"

None == [kind |-> "NoneType"]
RDF_nil == [kind |-> "URIRef", iri |-> "rdf:nil"]
URIRef(i) == [kind |-> "URIRef", iri |-> i]
BNode(l) == [kind |-> "BNode", label |-> l]
Variable(n) == [kind |-> "Variable", name |-> n]
\* A SPARQLError instance held as a value (an operand whose evaluation failed).
ErrorValue(m) == [kind |-> "SPARQLError", errmsg |-> m]
\* A list element whose comparison with the left operand of IN raises.
ErrorExpr(m) == [kind |-> "ErrorExpr", errmsg |-> m]
\* A literal given by its lexical form and datatype.
Lit(lex, dt) == [kind |-> "Literal", lex |-> lex, dt |-> dt]
\* A literal built from a Python value: Literal(v, datatype=dt).
LiteralDT(v, dt) == [kind |-> "Literal", py |-> v, dt |-> dt]

isLiteral(x) == "kind" \in DOMAIN x /\ x.kind = "Literal"
hasDatatype(x) == isLiteral(x)

(***************************************************************************)
(* Outcomes and exceptions                                                 *)
(***************************************************************************)
Exc(cls, msg, arg) == [cls |-> cls, msg |-> msg, arg |-> arg]
Return(v) == [out |-> "return", val |-> v]
ReturnBool(b) == [out |-> "return", b |-> b]
Raise(e) == [out |-> "raise", exc |-> e]
\* The outcome of an evaluation that has not run yet.
Pending == [out |-> "pending"]
\* SPARQLTypeError is a subclass of SPARQLError: `except SPARQLError` catches both.
isSPARQLError(e) == e.cls \in {"SPARQLError", "SPARQLTypeError"}

(***************************************************************************)
(* Python values and Literal.toPython()                                    *)
(***************************************************************************)
PyBool(b) == [t |-> "bool", b |-> b]
\* int, Decimal and float values are the rational num/den, or NaN.
PyNum(t, num, den) == [t |-> t, num |-> num, den |-> den, nan |-> FALSE]
PyNaN(t) == [t |-> t, num |-> 0, den |-> 1, nan |-> TRUE]
\* date, datetime and time values: fields counted from 0000-01-01T00:00:00.
PyCal(t, y, mo, d, s) == [t |-> t, years |-> y, months |-> mo, days |-> d, secs |-> s]
PyTimedelta(d, s) == [t |-> "timedelta", days |-> d, secs |-> s]
PyDuration(y, mo, d, s) == [t |-> "Duration", years |-> y, months |-> mo, days |-> d, secs |-> s]

Chars(s) == {s[i] : i \in 1..Len(s)}
Digits == <<"0", "1", "2", "3", "4", "5", "6", "7", "8", "9">>
DigitVal(c) == (CHOOSE i \in 1..10 : Digits[i] = c) - 1

RECURSIVE ParseDigits(_, _)
ParseDigits(s, acc) ==
    IF s = <<>> THEN acc ELSE ParseDigits(Tail(s), acc * 10 + DigitVal(Head(s)))

Num2(s, i) == DigitVal(s[i]) * 10 + DigitVal(s[i + 1])

NaNLex == <<"N", "a", "N">>

\* isodate.parse_duration on P[nY][nM][nD][T[nH][nM][nS]]: the components
\* of the lexical form, scanned from position i.
RECURSIVE ParseDurationFrom(_, _, _, _)
ParseDurationFrom(s, i, inTime, acc) ==
    IF i > Len(s) THEN acc
    ELSE IF s[i] = "T" THEN ParseDurationFrom(s, i + 1, TRUE, acc)
    ELSE LET n == DigitVal(s[i])
             u == s[i + 1]
             nacc == CASE u = "Y" -> [acc EXCEPT !.years = n]
                       [] u = "M" /\ ~inTime -> [acc EXCEPT !.months = n]
                       [] u = "D" -> [acc EXCEPT !.days = n]
                       [] u = "H" -> [acc EXCEPT !.secs = @ + 3600 * n]
                       [] u = "M" /\ inTime -> [acc EXCEPT !.secs = @ + 60 * n]
                       [] OTHER -> [acc EXCEPT !.secs = @ + n]
         IN ParseDurationFrom(s, i + 2, inTime, nacc)

\* parse_duration yields a timedelta when the form has no years and no
\* months, an isodate Duration otherwise.
parse_duration(s) ==
    LET c == ParseDurationFrom(s, 2, FALSE, PyDuration(0, 0, 0, 0))
    IN IF c.years = 0 /\ c.months = 0 THEN PyTimedelta(c.days, c.secs) ELSE c

\* YYYY-MM-DD
parse_date(s) == PyCal("date", ParseDigits(SubSeq(s, 1, 4), 0), Num2(s, 6) - 1, Num2(s, 9) - 1, 0)
\* hh:mm:ss
parse_time(s) == PyCal("time", 0, 0, 0, Num2(s, 1) * 3600 + Num2(s, 4) * 60 + Num2(s, 7))
\* YYYY-MM-DDThh:mm:ss
parse_datetime(s) ==
    PyCal("datetime", ParseDigits(SubSeq(s, 1, 4), 0), Num2(s, 6) - 1, Num2(s, 9) - 1,
          Num2(s, 12) * 3600 + Num2(s, 15) * 60 + Num2(s, 18))

IntegerDTs ==
    {XSD_integer, "xsd:nonPositiveInteger", "xsd:negativeInteger", "xsd:nonNegativeInteger",
     "xsd:positiveInteger", "xsd:unsignedLong", "xsd:unsignedInt", "xsd:unsignedShort",
     "xsd:unsignedByte", "xsd:long", XSD_int, "xsd:short", "xsd:byte"}
NumericDTs == {XSD_float, XSD_double, XSD_decimal} \cup IntegerDTs
XSD_DateTime_DTs == {XSD_dateTime, XSD_date, XSD_time}
XSD_Duration_DTs == {XSD_duration, XSD_dayTimeDuration, XSD_yearMonthDuration}

\* Literal.toPython(): the Python value of the lexical form for the
\* datatypes that have a conversion, the literal itself otherwise.
toPython(l) ==
    IF "py" \in DOMAIN l THEN l.py
    ELSE CASE l.dt = XSD_boolean ->
                  IF l.lex \in {<<"t", "r", "u", "e">>, <<"1">>} THEN PyBool(TRUE)
                  ELSE PyBool(FALSE)
           [] l.dt \in IntegerDTs -> PyNum("int", ParseDigits(l.lex, 0), 1)
           [] l.dt = XSD_decimal -> PyNum("Decimal", ParseDigits(l.lex, 0), 1)
           [] l.dt \in {XSD_float, XSD_double} ->
                  IF l.lex = NaNLex THEN PyNaN("float")
                  ELSE PyNum("float", ParseDigits(l.lex, 0), 1)
           [] l.dt = XSD_date -> parse_date(l.lex)
           [] l.dt = XSD_time -> parse_time(l.lex)
           [] l.dt = XSD_dateTime -> parse_datetime(l.lex)
           [] l.dt \in XSD_Duration_DTs -> parse_duration(l.lex)
           [] OTHER -> l

\* Python's bool(v) for the values toPython yields.
bool(v) ==
    CASE v.t = "bool" -> v.b
      [] v.t \in {"int", "Decimal", "float"} -> v.nan \/ v.num # 0
      [] v.t = "timedelta" -> v.days # 0 \/ v.secs # 0
      [] OTHER -> TRUE

(***************************************************************************)
(* Sample terms                                                            *)
(***************************************************************************)
True == Lit(<<"t", "r", "u", "e">>, XSD_boolean)
False == Lit(<<"f", "a", "l", "s", "e">>, XSD_boolean)
NumLex == {<<"0">>, <<"1">>}
NumLits == {Lit(x, dt) : x \in NumLex, dt \in {XSD_integer, XSD_decimal, XSD_float, XSD_double}}
NaNLits == {Lit(NaNLex, dt) : dt \in {XSD_float, XSD_double}}
StringLits == {Lit(x, dt) : x \in {<<>>, <<"x">>}, dt \in {NoDatatype, XSD_string}}
DateLex == <<"2", "0", "2", "0", "-", "0", "1", "-", "0", "2">>
TimeLex == <<"1", "0", ":", "0", "0", ":", "0", "0">>
DateTimeLex == DateLex \o <<"T">> \o TimeLex
ADate == Lit(DateLex, XSD_date)
ATime == Lit(TimeLex, XSD_time)
ADateTime == Lit(DateTimeLex, XSD_dateTime)
P1Y == <<"P", "1", "Y">>
P1D == <<"P", "1", "D">>
PT1H == <<"P", "T", "1", "H">>
P1DT1H == <<"P", "1", "D", "T", "1", "H">>
DurationLits ==
    {Lit(P1Y, XSD_yearMonthDuration), Lit(P1D, XSD_dayTimeDuration),
     Lit(PT1H, XSD_dayTimeDuration), Lit(P1D, XSD_duration), Lit(PT1H, XSD_duration)}
CalendarLits == {ADate, ATime, ADateTime}
AnIRI == URIRef("ex:a")
NonLiterals == {AnIRI, BNode("b"), Variable("v"), ErrorValue("e1")}
Terms ==
    {True, False} \cup NumLits \cup NaNLits \cup StringLits \cup CalendarLits
    \cup DurationLits \cup {Lit(<<"1">>, XSD_int), Lit(<<"x">>, EX_custom)} \cup NonLiterals

(***************************************************************************)
(* EBV                                                                     *)
(***************************************************************************)
EBV(rt) ==
    IF isLiteral(rt)
    THEN IF rt.dt = XSD_boolean THEN ReturnBool(toPython(rt).b)
         ELSE IF rt.dt = XSD_string \/ rt.dt = NoDatatype THEN ReturnBool(Len(rt.lex) > 0)
         ELSE LET pyRT == toPython(rt)
              IN IF isLiteral(pyRT)
                 THEN Raise(Exc("SPARQLTypeError", "Could not determine the EBV", rt))
                 ELSE ReturnBool(bool(pyRT))
    ELSE Raise(Exc("SPARQLTypeError", "Only literals have Boolean values", rt))

EBVStep ==
    /\ call.fn = "EBV"
    /\ result = Pending
    /\ result' = EBV(call.rt)
    /\ UNCHANGED <<call, registry, bindings>>

(***************************************************************************)
(* Expression nodes                                                        *)
(*                                                                         *)
(* A node is a record of its slots.  A slot that is not set is an absent   *)
(* field (CompValue yields None for it).  A slot that holds a list is the  *)
(* field `other`; where the slot holds a single term instead (rdf:nil for  *)
(* the empty list of IN) it is the field `otherTerm`.                      *)
(***************************************************************************)
otherIsNone(e) == "other" \notin DOMAIN e /\ "otherTerm" \notin DOMAIN e
otherIsNil(e) == "otherTerm" \in DOMAIN e /\ e.otherTerm = RDF_nil

\* All sequences over S of length lo..hi.
SeqsOf(S, lo, hi) == UNION {[1..n -> S] : n \in lo..hi}

(***************************************************************************)
(* RelationalExpression: IN and NOT IN                                     *)
(***************************************************************************)
\* x == expr on terms: structural equality; an erroring element raises.
TermEquals(x, expr) ==
    IF x.kind = "ErrorExpr"
    THEN [raised |-> TRUE, exc |-> Exc("SPARQLError", x.errmsg, x)]
    ELSE [raised |-> FALSE, eq |-> (x = expr)]

NoError == Exc("False", "", None)

\* InScan with a comparison error ending the scan at once.
RECURSIVE InScanAbort(_, _, _, _, _)
InScanAbort(other, i, expr, res, error) ==
    IF i > Len(other) THEN Return(LiteralDT(PyBool(res), XSD_boolean))
    ELSE LET c == TermEquals(other[i], expr)
         IN IF c.raised THEN Raise(c.exc)
            ELSE IF c.eq THEN Return(LiteralDT(PyBool(~res), XSD_boolean))
                 ELSE InScanAbort(other, i + 1, expr, res, error)

\* InScan with `error` assigned only while it is still unset.
RECURSIVE InScanKeepFirst(_, _, _, _, _)
InScanKeepFirst(other, i, expr, res, error) ==
    IF i > Len(other)
    THEN IF error = NoError THEN Return(LiteralDT(PyBool(res), XSD_boolean))
         ELSE Raise(error)
    ELSE LET c == TermEquals(other[i], expr)
         IN IF c.raised
            THEN InScanKeepFirst(other, i + 1, expr, res,
                                 IF error = NoError THEN c.exc ELSE error)
            ELSE IF c.eq THEN Return(LiteralDT(PyBool(~res), XSD_boolean))
                 ELSE InScanKeepFirst(other, i + 1, expr, res, error)

\* The loop of lines 861-870 from element i on; res is (op == "NOT IN"),
\* error the value of the variable `error`.
RECURSIVE InScan(_, _, _, _, _)
InScan(other, i, expr, res, error) ==
    IF i > Len(other)
    THEN IF error = NoError THEN Return(LiteralDT(PyBool(res), XSD_boolean))
         ELSE Raise(error)
    ELSE LET c == TermEquals(other[i], expr)
         IN IF c.raised
            THEN IF isSPARQLError(c.exc) THEN InScan(other, i + 1, expr, res, c.exc)
                 ELSE Raise(c.exc)
            ELSE IF c.eq THEN Return(LiteralDT(PyBool(~res), XSD_boolean))
                 ELSE InScan(other, i + 1, expr, res, error)

\* The branches of RelationalExpression taken for op in {"IN", "NOT IN"}.
RelationalExpression(e) ==
    IF otherIsNone(e) THEN Return(e.expr)
    ELSE LET other == IF otherIsNil(e) THEN <<>> ELSE e.other
         IN InScan(other, 1, e.expr, e.op = "NOT IN", NoError)

INLeft == {Lit(<<"0">>, XSD_integer), Lit(<<"1">>, XSD_integer)}
INElems == INLeft \cup {ErrorExpr("e1"), ErrorExpr("e2")}
RelationalNodes ==
    {[expr |-> x] : x \in INLeft}
    \cup {[expr |-> x, op |-> op, otherTerm |-> RDF_nil] : x \in INLeft, op \in {"IN", "NOT IN"}}
    \cup {[expr |-> x, op |-> op, other |-> l] :
            x \in INLeft, op \in {"IN", "NOT IN"}, l \in SeqsOf(INElems, 0, MaxList)}

RelationalExpressionStep ==
    /\ call.fn = "RelationalExpression"
    /\ result = Pending
    /\ result' = RelationalExpression(call.e)
    /\ UNCHANGED <<call, registry, bindings>>

(***************************************************************************)
(* ConditionalAndExpression, ConditionalOrExpression                       *)
(***************************************************************************)
\* AllEBV with every operand evaluated and a false operand absorbing the
\* errors of the others.
AllEBVFalseWins(xs, i) ==
    IF \E k \in i..Len(xs) : EBV(xs[k]).out = "return" /\ ~EBV(xs[k]).b
    THEN ReturnBool(FALSE)
    ELSE IF \E k \in i..Len(xs) : EBV(xs[k]).out = "raise"
    THEN EBV(xs[CHOOSE k \in i..Len(xs) : EBV(xs[k]).out = "raise"])
    ELSE ReturnBool(TRUE)

\* all(EBV(x) for x in xs) from operand i on: stops at the first operand
\* whose EBV is false or raises.
RECURSIVE AllEBV(_, _)
AllEBV(xs, i) ==
    IF i > Len(xs) THEN ReturnBool(TRUE)
    ELSE LET b == EBV(xs[i])
         IN IF b.out = "raise" THEN b
            ELSE IF ~b.b THEN ReturnBool(FALSE)
            ELSE AllEBV(xs, i + 1)

ConditionalAndExpression(e) ==
    IF otherIsNone(e) THEN Return(e.expr)
    ELSE LET r == AllEBV(<<e.expr>> \o e.other, 1)
         IN IF r.out = "raise" THEN r ELSE Return(LiteralDT(PyBool(r.b), XSD_boolean))

\* OrScan without the try/except: the first EBV error ends the scan.
RECURSIVE OrScanAbort(_, _, _)
OrScanAbort(xs, i, error) ==
    IF i > Len(xs) THEN Return(LiteralDT(PyBool(FALSE), XSD_boolean))
    ELSE LET b == EBV(xs[i])
         IN IF b.out = "raise" THEN b
            ELSE IF b.b THEN Return(LiteralDT(PyBool(TRUE), XSD_boolean))
                 ELSE OrScanAbort(xs, i + 1, error)

\* The loop of lines 938-946 from operand i on.
RECURSIVE OrScan(_, _, _)
OrScan(xs, i, error) ==
    IF i > Len(xs)
    THEN IF error # NoError THEN Raise(error)
         ELSE Return(LiteralDT(PyBool(FALSE), XSD_boolean))
    ELSE LET b == EBV(xs[i])
         IN IF b.out = "raise"
            THEN IF isSPARQLError(b.exc) THEN OrScan(xs, i + 1, b.exc) ELSE b
            ELSE IF b.b THEN Return(LiteralDT(PyBool(TRUE), XSD_boolean))
                 ELSE OrScan(xs, i + 1, error)

ConditionalOrExpression(e) ==
    IF otherIsNone(e) THEN Return(e.expr)
    ELSE OrScan(<<e.expr>> \o e.other, 1, NoError)

LogicTerms == {True, False, Lit(<<>>, NoDatatype), AnIRI, ErrorValue("e1")}
LogicNodes ==
    {[expr |-> x] : x \in LogicTerms}
    \cup {[expr |-> x, other |-> l] : x \in LogicTerms, l \in SeqsOf(LogicTerms, 1, MaxList)}

ConditionalAndExpressionStep ==
    /\ call.fn = "ConditionalAndExpression"
    /\ result = Pending
    /\ result' = ConditionalAndExpression(call.e)
    /\ UNCHANGED <<call, registry, bindings>>

ConditionalOrExpressionStep ==
    /\ call.fn = "ConditionalOrExpression"
    /\ result = Pending
    /\ result' = ConditionalOrExpression(call.e)
    /\ UNCHANGED <<call, registry, bindings>>

(***************************************************************************)
(* Python arithmetic on numbers                                            *)
(***************************************************************************)
Abs(x) == IF x < 0 THEN -x ELSE x

RECURSIVE GCD(_, _)
GCD(a, b) == IF b = 0 THEN a ELSE GCD(b, a % b)

\* The number num/den of Python type t, in lowest terms.
Rational(t, num, den) ==
    LET g == GCD(Abs(num), Abs(den))
        sgn == IF den < 0 THEN -1 ELSE 1
    IN PyNum(t, (sgn * num) \div g, (sgn * den) \div g)

\* float(v), Decimal(v): the same number under another Python type.
float(v) == [v EXCEPT !.t = "float"]
Decimal(v) == [v EXCEPT !.t = "Decimal"]

\* x op y for op in + - * /, as Python computes it.
PyBinOp(op, x, y) ==
    LET t == IF x.t = "int" THEN y.t ELSE x.t
    IN IF {x.t, y.t} = {"Decimal", "float"}
       THEN Raise(Exc("TypeError", "unsupported operand type(s)", None))
       ELSE IF op = "/" /\ ~y.nan /\ y.num = 0
       THEN IF t = "Decimal" /\ x.nan THEN Return(PyNaN(t))
            ELSE IF t = "Decimal" /\ x.num = 0
            THEN Raise(Exc("InvalidOperation", "0 / 0", None))
            ELSE Raise(Exc("ZeroDivisionError", "division by zero", None))
       ELSE IF x.nan \/ y.nan THEN Return(PyNaN(t))
       ELSE CASE op = "+" -> Return(Rational(t, x.num * y.den + y.num * x.den, x.den * y.den))
              [] op = "-" -> Return(Rational(t, x.num * y.den - y.num * x.den, x.den * y.den))
              [] op = "*" -> Return(Rational(t, x.num * y.num, x.den * y.den))
              [] op = "/" -> Return(Rational(t, x.num * y.den, x.den * y.num))

\* The datatype Literal(v) gives a Python value when none is passed.
PyToXSD(t) ==
    CASE t = "bool" -> XSD_boolean
      [] t = "int" -> XSD_integer
      [] t = "Decimal" -> XSD_decimal
      [] t = "float" -> XSD_double

Literal(v) == LiteralDT(v, PyToXSD(v.t))

numeric(expr) ==
    IF ~isLiteral(expr) THEN Raise(Exc("SPARQLTypeError", "is not a literal!", expr))
    ELSE IF expr.dt \notin NumericDTs
    THEN Raise(Exc("SPARQLTypeError", "does not have a numeric datatype!", expr))
    ELSE Return(toPython(expr))

\* The numeric promotion: integer < decimal < float < double, the derived
\* integer types counting as integer.
Category(dt) == IF dt \in IntegerDTs THEN XSD_integer ELSE dt
Rank(dt) ==
    CASE Category(dt) = XSD_integer -> 1
      [] dt = XSD_decimal -> 2
      [] dt = XSD_float -> 3
      [] dt = XSD_double -> 4
type_promotion(t1, t2) ==
    IF Category(t1) = Category(t2) THEN Category(t1)
    ELSE IF Rank(t1) < Rank(t2) THEN Category(t2) ELSE Category(t1)

(***************************************************************************)
(* MultiplicativeExpression                                                *)
(***************************************************************************)
\* The loop of lines 739-748 from pair i on, res being the running value.
RECURSIVE MulLoop(_, _, _, _)
MulLoop(ops, other, i, res) ==
    IF i > Len(other) THEN Return(res)
    ELSE LET f == numeric(other[i])
         IN IF f.out = "raise" THEN f
            ELSE LET res1 == IF f.val.t = "float" THEN float(res) ELSE res
                     r == PyBinOp(IF ops[i] = "*" THEN "*" ELSE "/", res1, f.val)
                 IN IF r.out = "raise" THEN r ELSE MulLoop(ops, other, i + 1, r.val)

MultiplicativeExpression(e) ==
    IF otherIsNone(e) THEN Return(e.expr)
    ELSE LET x == numeric(e.expr)
         IN IF x.out = "raise" THEN x
            ELSE LET r == MulLoop(e.op, e.other, 1, Decimal(x.val))
                 IN IF r.out = "raise"
                    THEN IF r.exc.cls \in {"InvalidOperation", "ZeroDivisionError"}
                         THEN Raise(Exc("SPARQLError", "divide by 0", None))
                         ELSE r
                    ELSE Return(Literal(r.val))

(***************************************************************************)
(* Python arithmetic on dates, times and durations                         *)
(***************************************************************************)
SecondsPerDay == 86400

\* str(n) and "%02d" % n.
RECURSIVE NatStr(_)
NatStr(n) == IF n < 10 THEN <<Digits[n + 1]>> ELSE NatStr(n \div 10) \o <<Digits[(n % 10) + 1]>>
IntStr(n) == IF n < 0 THEN <<"-">> \o NatStr(-n) ELSE NatStr(n)
Pad2(n) == IF n < 10 THEN <<"0">> \o NatStr(n) ELSE NatStr(n)

\* str(datetime.timedelta): "[D day[s], ]H:MM:SS".
TimedeltaStr(days, secs) ==
    LET hms == IntStr(secs \div 3600) \o <<":">> \o Pad2((secs \div 60) % 60)
               \o <<":">> \o Pad2(secs % 60)
    IN IF days # 0
       THEN IntStr(days) \o <<" ", "d", "a", "y">>
            \o (IF Abs(days) # 1 THEN <<"s">> ELSE <<>>) \o <<",", " ">> \o hms
       ELSE hms

\* str(isodate.Duration): "[Y years, ][M month[s], ]" and the timedelta.
DurationStr(v) ==
    (IF v.years # 0 THEN IntStr(v.years) \o <<" ", "y", "e", "a", "r", "s", ",", " ">> ELSE <<>>)
    \o (IF v.months # 0
        THEN IntStr(v.months) \o <<" ", "m", "o", "n", "t", "h">>
             \o (IF v.months <= 1 THEN <<>> ELSE <<"s">>) \o <<",", " ">>
        ELSE <<>>)
    \o TimedeltaStr(v.days, v.secs)

\* str(obj) of the Python object of a duration literal.
str(v) ==
    CASE v.t = "timedelta" -> TimedeltaStr(v.days, v.secs)
      [] v.t = "Duration" -> DurationStr(v)

\* days and seconds brought to 0 <= secs < 86400, as timedelta keeps them.
NormDays(days, secs) == days + (IF secs < 0 THEN -1 ELSE secs \div SecondsPerDay)
NormSecs(secs) == IF secs < 0 THEN secs + SecondsPerDay ELSE secs % SecondsPerDay

\* obj1 + sign * obj2 for a date, datetime or time obj1 and a timedelta or
\* Duration obj2.  A date drops the seconds of the normalised timedelta; a
\* time supports neither operation.  No carry between days and months arises
\* for the literals of the model.
CalPlus(obj1, obj2, sign) ==
    LET dy == IF obj2.t = "Duration" THEN sign * obj2.years ELSE 0
        dm == IF obj2.t = "Duration" THEN sign * obj2.months ELSE 0
        m == obj1.months + dm
        y == obj1.years + dy + (IF m < 0 THEN -1 ELSE m \div 12)
        mo == IF m < 0 THEN m + 12 ELSE m % 12
        tdays == NormDays(sign * obj2.days, sign * obj2.secs)
        tsecs == NormSecs(sign * obj2.secs)
    IN IF obj1.t = "time" THEN Raise(Exc("TypeError", "unsupported operand type(s)", None))
       ELSE IF obj1.t = "date" THEN Return(PyCal("date", y, mo, obj1.days + tdays, 0))
       ELSE Return(PyCal("datetime", y, mo,
                         obj1.days + tdays + NormDays(0, obj1.secs + tsecs),
                         NormSecs(obj1.secs + tsecs)))

\* obj1 + obj2 and obj1 - obj2 as calculateFinalDateTime and
\* calculateDuration meet them.
PyDateTimeOp(op, obj1, obj2) ==
    IF obj1.t \in {"date", "datetime"} /\ obj2.t \in {"timedelta", "Duration"}
    THEN CalPlus(obj1, obj2, IF op = "-" THEN -1 ELSE 1)
    ELSE IF op = "-" /\ obj1.t = obj2.t /\ obj1.t \in {"date", "datetime"}
    THEN Return(PyTimedelta(
             (obj1.days - obj2.days) + NormDays(0, obj1.secs - obj2.secs),
             NormSecs(obj1.secs - obj2.secs)))
    ELSE Raise(Exc("TypeError", "unsupported operand type(s)", None))

(***************************************************************************)
(* Date/time arithmetic of AdditiveExpression                              *)
(***************************************************************************)
dateTimeObjects(expr) == toPython(expr)

\* "True", "False", or "None" where the function ends without a return.
isCompatibleDateTimeDatatype(obj1, dt1, obj2, dt2) ==
    IF dt1 = XSD_date /\ dt2 = XSD_yearMonthDuration THEN "True"
    ELSE IF dt1 = XSD_date /\ (dt2 = XSD_dayTimeDuration \/ dt2 = XSD_Duration)
    THEN IF "T" \in Chars(str(obj2)) THEN "False" ELSE "True"
    ELSE IF dt1 = XSD_time /\ dt2 = XSD_yearMonthDuration THEN "False"
    ELSE IF dt1 = XSD_time /\ (dt2 = XSD_dayTimeDuration \/ dt2 = XSD_Duration)
    THEN IF "T" = str(obj2)[2] THEN "True" ELSE "False"
    ELSE IF dt1 = XSD_dateTime THEN "True"
    ELSE "None"

calculateDuration(obj1, obj2) ==
    LET difference == PyDateTimeOp("-", obj1, obj2)
    IN IF difference.out = "raise" THEN difference
       ELSE Return(LiteralDT(difference.val, XSD_duration))

calculateFinalDateTime(obj1, dt1, obj2, dt2, operation) ==
    IF isCompatibleDateTimeDatatype(obj1, dt1, obj2, dt2) = "True"
    THEN LET ans == PyDateTimeOp(IF operation = "-" THEN "-" ELSE "+", obj1, obj2)
         IN IF ans.out = "raise" THEN ans ELSE Return(LiteralDT(ans.val, dt1))
    ELSE Raise(Exc("SPARQLError", "Incompatible Data types to DateTime Operations", None))

\* The loop of lines 772-803 from pair i on; res and dt are those of the
\* left operand.  A pair that takes no branch's return or raise leaves the
\* loop to go on, and the function ends without a return after the last.
RECURSIVE DateTimeLoop(_, _, _, _, _)
DateTimeLoop(ops, other, i, res, dt) ==
    IF i > Len(other) THEN Return(None)
    ELSE LET op == ops[i]
             term == other[i]
         IN IF ~hasDatatype(term)
            THEN Raise(Exc("AttributeError", "object has no attribute 'datatype'", term))
            ELSE IF dt \in XSD_DateTime_DTs /\ dt = term.dt /\ op = "-"
            THEN IF Len(other) > 1
                 THEN Raise(Exc("AttributeError", "'URIRef' object has no attribute 'datatype'", None))
                 ELSE calculateDuration(res, dateTimeObjects(term))
            ELSE IF dt \in XSD_DateTime_DTs /\ term.dt \in XSD_Duration_DTs
            THEN calculateFinalDateTime(res, dt, dateTimeObjects(term), term.dt, op)
            ELSE IF dt \in XSD_Duration_DTs /\ term.dt \in XSD_DateTime_DTs
            THEN IF op = "+"
                 THEN calculateFinalDateTime(res, dt, dateTimeObjects(term), term.dt, op)
                 ELSE DateTimeLoop(ops, other, i + 1, res, dt)
            ELSE Raise(Exc("SPARQLError", "Invalid DateTime Operations", None))

\* The loop of lines 811-823 from pair i on.
RECURSIVE NumericLoop(_, _, _, _, _)
NumericLoop(ops, other, i, res, dt) ==
    IF i > Len(other) THEN Return(LiteralDT(res, dt))
    ELSE LET n == numeric(other[i])
         IN IF n.out = "raise" THEN n
            ELSE LET n1 == IF n.val.t = "Decimal" /\ res.t = "float" THEN float(n.val) ELSE n.val
                     res1 == IF n1.t = "float" /\ res.t = "Decimal" THEN float(res) ELSE res
                     r == PyBinOp(IF ops[i] = "+" THEN "+" ELSE "-", res1, n1)
                 IN IF r.out = "raise" THEN r
                    ELSE NumericLoop(ops, other, i + 1, r.val, type_promotion(dt, other[i].dt))

AdditiveExpression(e) ==
    IF otherIsNone(e) THEN Return(e.expr)
    ELSE IF hasDatatype(e.expr) /\ (e.expr.dt \in XSD_DateTime_DTs \/ e.expr.dt \in XSD_Duration_DTs)
    THEN DateTimeLoop(e.op, e.other, 1, dateTimeObjects(e.expr), e.expr.dt)
    ELSE LET x == numeric(e.expr)
         IN IF x.out = "raise" THEN x
            ELSE NumericLoop(e.op, e.other, 1, x.val, e.expr.dt)

\* The node of an arithmetic operator: a left operand and (op, term) pairs.
ChainNode(x, chain) ==
    [expr |-> x,
     op |-> [i \in 1..Len(chain) |-> chain[i].op],
     other |-> [i \in 1..Len(chain) |-> chain[i].term]]
\* The call of fn on a node with a left operand of lefts and no pair, or
\* 1..MaxPairs pairs of an operator of opset and a term of terms.
ChainCall(fn, lefts, opset, terms) ==
    \/ \E x \in lefts : call = [fn |-> fn, e |-> [expr |-> x]]
    \/ \E x \in lefts, n \in 1..MaxPairs :
           \E c \in [1..n -> [op : opset, term : terms]] :
               call = [fn |-> fn, e |-> ChainNode(x, c)]

NumericOperands == NumLits \cup {ADate}
NumericLefts == NumLits \cup {AnIRI, Lit(<<"x">>, NoDatatype)}
DateTimeOperands == CalendarLits \cup DurationLits \cup {AnIRI}

AdditiveExpressionStep ==
    /\ call.fn = "AdditiveExpression"
    /\ result = Pending
    /\ result' = AdditiveExpression(call.e)
    /\ UNCHANGED <<call, registry, bindings>>

MultiplicativeExpressionStep ==
    /\ call.fn = "MultiplicativeExpression"
    /\ result = Pending
    /\ result' = MultiplicativeExpression(call.e)
    /\ UNCHANGED <<call, registry, bindings>>

calculateFinalDateTimeStep ==
    /\ call.fn = "calculateFinalDateTime"
    /\ result = Pending
    /\ result' = calculateFinalDateTime(dateTimeObjects(call.left), call.left.dt,
                                        dateTimeObjects(call.right), call.right.dt,
                                        call.operation)
    /\ UNCHANGED <<call, registry, bindings>>

(***************************************************************************)
(* The registry of custom functions                                        *)
(***************************************************************************)
\* The IRIs default_cast is registered for when the module is loaded.
CastIRIs ==
    {XSD_string, XSD_dateTime, XSD_float, XSD_double, XSD_decimal, XSD_integer, XSD_boolean}
InitialRegistry == [u \in CastIRIs |-> [func |-> "default_cast", raw |-> TRUE]]

\* The IRIs and functions the calls are drawn from.
Uris == {XSD_integer, "ex:f"}
Funcs == {"default_cast", "func1", "func2"}
NoFunc == "None"

\* d[uri] = entry
Put(d, uri, entry) == [u \in DOMAIN d \cup {uri} |-> IF u = uri THEN entry ELSE d[u]]
\* del d[uri]
Del(d, uri) == [u \in DOMAIN d \ {uri} |-> d[u]]

\* register_custom_function with the test of line 601 left out.
register_always(uri, func, override, raw) ==
    /\ call' = [fn |-> "register_custom_function", uri |-> uri, func |-> func,
                override |-> override, raw |-> raw]
    /\ registry' = Put(registry, uri, [func |-> func, raw |-> raw])
    /\ result' = Return(None)

register_custom_function(uri, func, override, raw) ==
    /\ call' = [fn |-> "register_custom_function", uri |-> uri, func |-> func,
                override |-> override, raw |-> raw]
    /\ IF ~override /\ uri \in DOMAIN registry
       THEN /\ result' = Raise(Exc("ValueError", "A function is already registered", None))
            /\ UNCHANGED registry
       ELSE /\ registry' = Put(registry, uri, [func |-> func, raw |-> raw])
            /\ result' = Return(None)

\* func may be None; `del` of a key that is absent raises KeyError.
unregister_custom_function(uri, func) ==
    /\ call' = [fn |-> "unregister_custom_function", uri |-> uri, func |-> func]
    /\ IF (IF uri \in DOMAIN registry THEN registry[uri].func ELSE NoFunc) # func
       THEN /\ result' = Raise(Exc("ValueError", "This function is not registered", None))
            /\ UNCHANGED registry
       ELSE IF uri \notin DOMAIN registry
       THEN /\ result' = Raise(Exc("KeyError", "del _CUSTOM_FUNCTIONS[uri]", None))
            /\ UNCHANGED registry
       ELSE /\ registry' = Del(registry, uri)
            /\ result' = Return(None)

\* Function with the test of line 633 left out: the function found is
\* always given the argument terms.
FunctionByValue(iri, fnout) ==
    /\ call' = [fn |-> "Function", iri |-> iri]
    /\ UNCHANGED registry
    /\ IF iri \notin DOMAIN registry
       THEN result' = Raise(Exc("SPARQLError", "Unknown function", None))
       ELSE LET pair == registry[iri]
            IN IF fnout = "return"
               THEN result' = [out |-> "return", val |-> URIRef("ex:result"),
                               invoked |-> pair.func, args |-> "*e.expr"]
               ELSE result' = [out |-> "raise",
                               exc |-> Exc("SPARQLError", "wrong argument number", None),
                               invoked |-> pair.func, args |-> "*e.expr"]

\* Function(e, ctx) for e.iri = iri.  The function found is called with
\* the node and the context (raw) or with the argument terms; fnout is what
\* that call does: it returns a term or raises TypeError.  The outcome
\* records the function called and the arguments it was given.
Function(iri, fnout) ==
    /\ call' = [fn |-> "Function", iri |-> iri]
    /\ UNCHANGED registry
    /\ IF iri \notin DOMAIN registry
       THEN result' = Raise(Exc("SPARQLError", "Unknown function", None))
       ELSE LET pair == registry[iri]
                args == IF pair.raw THEN "e, ctx" ELSE "*e.expr"
            IN IF fnout = "return"
               THEN result' = [out |-> "return", val |-> URIRef("ex:result"),
                               invoked |-> pair.func, args |-> args]
               ELSE result' = [out |-> "raise",
                               exc |-> Exc(IF pair.raw THEN "TypeError" ELSE "SPARQLError",
                                           "wrong argument number", None),
                               invoked |-> pair.func, args |-> args]

(***************************************************************************)
(* simplify                                                                *)
(*                                                                         *)
(* An expression tree is a term, a pyparsing ParseResults or a list of     *)
(* trees, or a CompValue with a name and slots that hold trees.            *)
(***************************************************************************)
ParseResults(items) == [kind |-> "ParseResults", items |-> items]
PyList(items) == [kind |-> "list", items |-> items]
CompValue(name, slots) == [kind |-> "CompValue", name |-> name, slots |-> slots]

\* expr[k] of a CompValue: None for a slot that is not set.
Slot(expr, k) == IF k \in DOMAIN expr.slots THEN expr.slots[k] ELSE None

\* The names of the nodes of the model; name.endswith("Expression").
ChainNames == {"AdditiveExpression"}
endswithExpression(name) == name \in ChainNames

\* simplify that returns the operand of a collapsed node as it is.
RECURSIVE simplifyOperandKept(_)
simplifyOperandKept(expr) ==
    IF expr.kind = "ParseResults" /\ Len(expr.items) = 1
    THEN simplifyOperandKept(expr.items[1])
    ELSE IF expr.kind \in {"list", "ParseResults"}
    THEN PyList([i \in 1..Len(expr.items) |-> simplifyOperandKept(expr.items[i])])
    ELSE IF expr.kind # "CompValue"
    THEN expr
    ELSE IF endswithExpression(expr.name) /\ Slot(expr, "other") = None
    THEN Slot(expr, "expr")
    ELSE CompValue(expr.name,
                   [k \in DOMAIN expr.slots |-> simplifyOperandKept(expr.slots[k])])

RECURSIVE simplify(_)
simplify(expr) ==
    IF expr.kind = "ParseResults" /\ Len(expr.items) = 1
    THEN simplify(expr.items[1])
    ELSE IF expr.kind \in {"list", "ParseResults"}
    THEN PyList([i \in 1..Len(expr.items) |-> simplify(expr.items[i])])
    ELSE IF expr.kind # "CompValue"
    THEN expr
    ELSE IF endswithExpression(expr.name) /\ Slot(expr, "other") = None
    THEN simplify(Slot(expr, "expr"))
    ELSE CompValue(expr.name, [k \in DOMAIN expr.slots |-> simplify(expr.slots[k])])

\* The trees of exactly n nodes: a chain node has an operand and may have
\* a continuation, another node has one argument.
RECURSIVE TreesOfSize(_)
TreesOfSize(n) ==
    IF n = 1
    THEN {AnIRI, ParseResults(<<>>)}
    ELSE LET Sub == TreesOfSize(n - 1)
             Pairs == UNION {TreesOfSize(i) \X TreesOfSize(n - 1 - i) : i \in 1..(n - 2)}
         IN {ParseResults(<<t>>) : t \in Sub}
            \cup {PyList(<<t>>) : t \in Sub}
            \cup {CompValue(name, [expr |-> t]) : name \in ChainNames, t \in Sub}
            \cup {CompValue("Builtin_STR", [arg |-> t]) : t \in Sub}
            \cup {ParseResults(<<p[1], p[2]>>) : p \in Pairs}
            \cup {CompValue(name, [expr |-> p[1], other |-> p[2]]) :
                    name \in ChainNames, p \in Pairs}
Trees == UNION {TreesOfSize(n) : n \in 1..MaxNodes}

simplifyStep ==
    /\ call.fn = "simplify"
    /\ result = Pending
    /\ result' = Return(simplify(call.expr))
    /\ UNCHANGED <<call, registry, bindings>>

(***************************************************************************)
(* Builtin_EXISTS                                                          *)
(*                                                                         *)
(* evalPart yields the solutions of the pattern one at a time, each when   *)
(* it is requested.  The generator records how many requests it was sent   *)
(* and how many solutions it produced.                                     *)
(***************************************************************************)
evalPart(n) == [solutions |-> n, requested |-> 0, produced |-> 0]

\* next(gen): the next solution, or the end of the iteration.
PyNext(gen) ==
    IF gen.produced < gen.solutions
    THEN [stop |-> FALSE,
          gen |-> [gen EXCEPT !.requested = @ + 1, !.produced = @ + 1]]
    ELSE [stop |-> TRUE, gen |-> [gen EXCEPT !.requested = @ + 1]]

\* list(gen): requests solutions until the iteration ends.
RECURSIVE PyListOf(_)
PyListOf(gen) ==
    LET n == PyNext(gen) IN IF n.stop THEN n.gen ELSE PyListOf(n.gen)

\* Builtin_EXISTS that collects the solutions before it looks at them.
Builtin_EXISTS_Materialized(e, gen) ==
    LET exists == e.name = "Builtin_EXISTS"
        all == PyListOf(gen)
    IN [out |-> "return",
        val |-> Literal(PyBool(IF all.produced > 0 THEN exists ELSE ~exists)),
        gen |-> all]

\* The outcome holds the generator as the function left it.
Builtin_EXISTS(e, gen) ==
    LET exists == e.name = "Builtin_EXISTS"
        first == PyNext(gen)
    IN IF ~first.stop
       THEN [out |-> "return", val |-> Literal(PyBool(exists)), gen |-> first.gen]
       ELSE [out |-> "return", val |-> Literal(PyBool(~exists)), gen |-> first.gen]

Builtin_EXISTSStep ==
    /\ call.fn = "Builtin_EXISTS"
    /\ result = Pending
    /\ result' = Builtin_EXISTS(call.e, evalPart(call.solutions))
    /\ UNCHANGED <<call, registry, bindings>>

(***************************************************************************)
(* Builtin_ABS, Builtin_CEIL, Builtin_FLOOR                                *)
(***************************************************************************)
\* abs(v)
PyAbs(v) == [v EXCEPT !.num = Abs(@)]
\* int(math.ceil(v)), int(math.floor(v)): NaN has no integer.
PyCeil(v) ==
    IF v.nan THEN Raise(Exc("ValueError", "cannot convert NaN to integer", None))
    ELSE Return(PyNum("int", -((-v.num) \div v.den), 1))
PyFloor(v) ==
    IF v.nan THEN Raise(Exc("ValueError", "cannot convert NaN to integer", None))
    ELSE Return(PyNum("int", v.num \div v.den, 1))

Builtin_ABS(expr) ==
    LET n == numeric(expr.arg)
    IN IF n.out = "raise" THEN n ELSE Return(Literal(PyAbs(n.val)))

Builtin_CEIL(expr) ==
    LET l_ == expr.arg
        n == numeric(l_)
    IN IF n.out = "raise" THEN n
       ELSE LET c == PyCeil(n.val)
            IN IF c.out = "raise" THEN c ELSE Return(LiteralDT(c.val, l_.dt))

Builtin_FLOOR(expr) ==
    LET l_ == expr.arg
        n == numeric(l_)
    IN IF n.out = "raise" THEN n
       ELSE LET f == PyFloor(n.val)
            IN IF f.out = "raise" THEN f ELSE Return(LiteralDT(f.val, l_.dt))

\* The Python type of the value of a literal of a numeric datatype.
PyTypeOf(dt) ==
    IF dt \in IntegerDTs THEN "int" ELSE IF dt = XSD_decimal THEN "Decimal" ELSE "float"

\* Literals of numeric datatypes with the values -1, 0, 1 and, where the
\* datatype has fractions, -3/2 and 3/2; NaN; two arguments without number.
SignedLits ==
    {LiteralDT(PyNum(PyTypeOf(dt), n, 1), dt) :
        n \in {-1, 0, 1}, dt \in {XSD_integer, XSD_int, "xsd:byte", XSD_decimal, XSD_float, XSD_double}}
    \cup {LiteralDT(PyNum(PyTypeOf(dt), n, 2), dt) :
            n \in {-3, 3}, dt \in {XSD_decimal, XSD_float, XSD_double}}
NumericArgs == SignedLits \cup NumLits \cup NaNLits \cup {AnIRI, Lit(<<"x">>, NoDatatype)}

Builtin_ABSStep ==
    /\ call.fn = "Builtin_ABS"
    /\ result = Pending
    /\ result' = Builtin_ABS(call.expr)
    /\ UNCHANGED <<call, registry, bindings>>

Builtin_CEILStep ==
    /\ call.fn = "Builtin_CEIL"
    /\ result = Pending
    /\ result' = Builtin_CEIL(call.expr)
    /\ UNCHANGED <<call, registry, bindings>>

Builtin_FLOORStep ==
    /\ call.fn = "Builtin_FLOOR"
    /\ result = Pending
    /\ result' = Builtin_FLOOR(call.expr)
    /\ UNCHANGED <<call, registry, bindings>>

(***************************************************************************)
(* Builtin_TIMEZONE                                                        *)
(***************************************************************************)
\* A datetime with a tzinfo of the given offset from UTC, in minutes.
PyDateTimeTZ(minutes) ==
    [t |-> "datetime", years |-> 2011, months |-> 0, days |-> 9, secs |-> 53113,
     tzinfo |-> [minutes |-> minutes]]
\* dt.tzinfo: None for a datetime without timezone.
tzinfo(dt) == IF "tzinfo" \in DOMAIN dt THEN dt.tzinfo ELSE None
\* dt.utcoffset(): a timedelta, with 0 <= seconds < 86400.
utcoffset(dt) ==
    PyTimedelta(NormDays(0, dt.tzinfo.minutes * 60), NormSecs(dt.tzinfo.minutes * 60))

\* datetime(e)
datetime(e) ==
    IF ~isLiteral(e)
    THEN Raise(Exc("SPARQLError", "Non-literal passed as datetime", e))
    ELSE IF e.dt # XSD_dateTime
    THEN Raise(Exc("SPARQLError", "Literal with wrong datatype passed as datetime", e))
    ELSE Return(toPython(e))

\* "%d" % v for a number v >= 0: the integer part.
FormatD(v) == NatStr(v.num \div v.den)

\* The division x / y is the true division: h, m and s are fractions.
Builtin_TIMEZONE(e) ==
    LET r == datetime(e.arg)
    IN IF r.out = "raise" THEN r
       ELSE IF tzinfo(r.val) = None
       THEN Raise(Exc("SPARQLError", "datatime has no timezone", None))
       ELSE LET delta == utcoffset(r.val)
                neg == IF delta.days < 0 THEN <<"-">> ELSE <<>>
                s0 == IF delta.days < 0
                      THEN -24 * 60 * 60 * delta.days - delta.secs
                      ELSE delta.secs
                d == IF delta.days < 0 THEN 0 ELSE delta.days
                h == Rational("float", s0, 60 * 60)
                m == Rational("float", s0 * h.den - h.num * 60 * 60, h.den * 60)
                s == Rational("float",
                              s0 * h.den * m.den - h.num * 60 * 60 * m.den
                              - m.num * 60 * h.den,
                              h.den * m.den)
                tzdelta ==
                    neg \o <<"P">>
                    \o (IF d # 0 THEN NatStr(d) \o <<"D">> ELSE <<>>)
                    \o <<"T">>
                    \o (IF h.num # 0 THEN FormatD(h) \o <<"H">> ELSE <<>>)
                    \o (IF m.num # 0 THEN FormatD(m) \o <<"M">> ELSE <<>>)
                    \o (IF d = 0 /\ h.num = 0 /\ m.num = 0
                        THEN FormatD(s) \o <<"S">> ELSE <<>>)
            IN Return(Lit(tzdelta, XSD_dayTimeDuration))

\* The offsets drawn: whole hours and hours with 30 or 45 minutes, of
\* either sign (the fractions of an hour that a float holds exactly).
Offsets ==
    {sign * (hh * 60 + mm) : sign \in {-1, 1}, hh \in 0..MaxOffsetHours, mm \in {0, 30, 45}}
TimezoneArgs ==
    {LiteralDT(PyDateTimeTZ(o), XSD_dateTime) : o \in Offsets}
    \cup {ADateTime, ADate, AnIRI}

Builtin_TIMEZONEStep ==
    /\ call.fn = "Builtin_TIMEZONE"
    /\ result = Pending
    /\ result' = Builtin_TIMEZONE(call.e)
    /\ UNCHANGED <<call, registry, bindings>>

\* The evaluations the model draws: one function applied to one node.
Init ==
    /\ \/ call \in {[fn |-> "EBV", rt |-> rt] : rt \in Terms}
       \/ call \in {[fn |-> "RelationalExpression", e |-> e] : e \in RelationalNodes}
       \/ call \in {[fn |-> "ConditionalAndExpression", e |-> e] : e \in LogicNodes}
       \/ call \in {[fn |-> "ConditionalOrExpression", e |-> e] : e \in LogicNodes}
       \/ ChainCall("AdditiveExpression", NumericLefts, {"+", "-"}, NumericOperands)
       \/ ChainCall("AdditiveExpression", CalendarLits \cup DurationLits, {"+", "-"},
                    DateTimeOperands)
       \/ ChainCall("MultiplicativeExpression", NumericLefts, {"*", "/"}, NumericOperands)
       \/ call \in {[fn |-> "calculateFinalDateTime", left |-> l, right |-> r, operation |-> op] :
                      l \in CalendarLits \cup DurationLits,
                      r \in CalendarLits \cup DurationLits, op \in {"+", "-"}}
       \/ call \in {[fn |-> "simplify", expr |-> t] : t \in Trees}
       \/ \E x \in TimezoneArgs : call = [fn |-> "Builtin_TIMEZONE", e |-> [arg |-> x]]
       \/ \E fn \in {"Builtin_ABS", "Builtin_CEIL", "Builtin_FLOOR"}, x \in NumericArgs :
              call = [fn |-> fn, expr |-> [arg |-> x]]
       \/ call \in {[fn |-> "Builtin_EXISTS", e |-> [name |-> name], solutions |-> n] :
                      name \in {"Builtin_EXISTS", "Builtin_NOTEXISTS"}, n \in 0..MaxSolutions}
    /\ result = Pending
    /\ registry = InitialRegistry
    /\ bindings = InitialRegistry

Next ==
    \/ EBVStep
    \/ RelationalExpressionStep
    \/ ConditionalAndExpressionStep
    \/ ConditionalOrExpressionStep
    \/ AdditiveExpressionStep
    \/ MultiplicativeExpressionStep
    \/ calculateFinalDateTimeStep
    \/ simplifyStep
    \/ Builtin_EXISTSStep
    \/ Builtin_ABSStep
    \/ Builtin_CEILStep
    \/ Builtin_FLOORStep
    \/ Builtin_TIMEZONEStep

Spec == Init /\ [][Next]_vars

\* The history of the calls, kept beside the registry: for each IRI the
\* function and calling convention of the most recent registration that
\* returned and that no later unregistration that returned has removed.  It
\* is derived from the calls and their outcomes alone.  The registrations
\* of lines 645-651 are made when the module is loaded.
Recorded ==
    bindings' =
        IF result'.out # "return" THEN bindings
        ELSE IF call'.fn = "register_custom_function"
        THEN [u \in DOMAIN bindings \cup {call'.uri} |->
                 IF u = call'.uri THEN [func |-> call'.func, raw |-> call'.raw]
                 ELSE bindings[u]]
        ELSE IF call'.fn = "unregister_custom_function"
        THEN [u \in DOMAIN bindings \ {call'.uri} |-> bindings[u]]
        ELSE bindings

\* The registry under any sequence of registrations, removals and calls.
InitRegistry ==
    /\ call = [fn |-> "none"]
    /\ result = Pending
    /\ registry = InitialRegistry
    /\ bindings = InitialRegistry

NextRegistry ==
    \/ \E uri \in Uris, func \in Funcs, override \in BOOLEAN, raw \in BOOLEAN :
           register_custom_function(uri, func, override, raw) /\ Recorded
    \/ \E uri \in Uris, func \in Funcs \cup {NoFunc} :
           unregister_custom_function(uri, func) /\ Recorded
    \/ \E iri \in Uris, fnout \in {"return", "TypeError"} :
           Function(iri, fnout) /\ Recorded

SpecRegistry == InitRegistry /\ [][NextRegistry]_vars

(***************************************************************************)
(* Properties                                                              *)
(***************************************************************************)
Done(fn) == call.fn = fn /\ result # Pending
TrueLiteral == LiteralDT(PyBool(TRUE), XSD_boolean)
FalseLiteral == LiteralDT(PyBool(FALSE), XSD_boolean)

\* The list of an IN / NOT IN node, and what the claims say of its elements.
InList(e) == IF otherIsNil(e) THEN <<>> ELSE e.other
ComparesEqual(x, v) == x.kind # "ErrorExpr" /\ x = v
ComparisonRaises(x) == x.kind = "ErrorExpr"
InDone == Done("RelationalExpression") /\ ~otherIsNone(call.e) /\ call.e.op = "IN"
Matches(e) == {i \in 1..Len(InList(e)) : ComparesEqual(InList(e)[i], e.expr)}
Erroring(e) == {i \in 1..Len(InList(e)) : ComparisonRaises(InList(e)[i])}
Max(S) == CHOOSE i \in S : \A j \in S : j <= i
Min(S) == CHOOSE i \in S : \A j \in S : i <= j

\* C1: v IN L is true when some element of L compares equal to v, also
\* when the comparison of an earlier element raised; it is false when L is
\* empty or when no element is equal and no comparison raised.
C1_InMatchOverridesError ==
    InDone =>
        /\ Matches(call.e) # {} => result = Return(TrueLiteral)
        /\ (Matches(call.e) = {} /\ Erroring(call.e) = {}) => result = Return(FalseLiteral)

C1_Witness ==
    /\ InDone
    /\ \E i \in Erroring(call.e) : \E j \in Matches(call.e) : i < j
    /\ result = Return(TrueLiteral)

\* C2 as claimed: when no element of L is equal to v and some comparison
\* raised, v IN L raises the first error met in list order.
C2_RaisesFirstError ==
    (InDone /\ Matches(call.e) = {} /\ Erroring(call.e) # {}) =>
        /\ result.out = "raise"
        /\ result.exc.arg = InList(call.e)[Min(Erroring(call.e))]

\* C2 as amended: when no element of L is equal to v and some comparison
\* raised, v IN L raises, and the error raised is the last one met in list
\* order.
C2_RaisesLastError ==
    (InDone /\ Matches(call.e) = {} /\ Erroring(call.e) # {}) =>
        /\ result.out = "raise"
        /\ result.exc.arg = InList(call.e)[Max(Erroring(call.e))]

C2_Witness ==
    /\ InDone
    /\ Matches(call.e) = {}
    /\ \E i, j \in Erroring(call.e) : i < j /\ InList(call.e)[i] # InList(call.e)[j]
    /\ result.out = "raise"
    /\ result.exc.arg = InList(call.e)[Max(Erroring(call.e))]

\* The operands of a logical node, and the operands whose EBV is true,
\* false or raises.
Operands(e) == <<e.expr>> \o e.other
EBVTrue(e) == {i \in 1..Len(Operands(e)) : EBV(Operands(e)[i]) = ReturnBool(TRUE)}
EBVFalse(e) == {i \in 1..Len(Operands(e)) : EBV(Operands(e)[i]) = ReturnBool(FALSE)}
EBVRaises(e) == {i \in 1..Len(Operands(e)) : EBV(Operands(e)[i]).out = "raise"}
OrDone == Done("ConditionalOrExpression") /\ ~otherIsNone(call.e)
AndDone == Done("ConditionalAndExpression") /\ ~otherIsNone(call.e)

\* C3: x1 || ... || xn (n >= 2) is true when the EBV of some operand is
\* true, even after an operand whose EBV raised; it raises when no EBV is
\* true and some EBV raised; it is false when no EBV raised and none is true.
C3_OrOutcome ==
    OrDone =>
        /\ EBVTrue(call.e) # {} => result = Return(TrueLiteral)
        /\ (EBVTrue(call.e) = {} /\ EBVRaises(call.e) # {}) => result.out = "raise"
        /\ (EBVTrue(call.e) = {} /\ EBVRaises(call.e) = {}) => result = Return(FalseLiteral)

C3_Witness ==
    /\ OrDone
    /\ \E i \in EBVRaises(call.e) : \E j \in EBVTrue(call.e) : i < j
    /\ result = Return(TrueLiteral)

\* C4: x1 && ... && xn (n >= 2), scanned in order, is true only if the EBV
\* of every operand is true; it is false, without error, when an operand
\* whose EBV is false comes before every operand whose EBV raises; when an
\* operand whose EBV raises comes before every false operand, that first
\* error is raised, a later false operand notwithstanding.
C4_AndOutcome ==
    AndDone =>
        LET n == Len(Operands(call.e))
            F == EBVFalse(call.e)
            R == EBVRaises(call.e)
        IN /\ result = Return(TrueLiteral) => EBVTrue(call.e) = 1..n
           /\ (F # {} /\ \A r \in R : Min(F) < r) => result = Return(FalseLiteral)
           /\ (R # {} /\ \A f \in F : Min(R) < f) =>
                  result = Raise(EBV(Operands(call.e)[Min(R)]).exc)

C4_Witness ==
    /\ AndDone
    /\ \E r \in EBVRaises(call.e) : \E f \in EBVFalse(call.e) :
           r < f /\ \A k \in 1..(r - 1) : k \in EBVTrue(call.e)
    /\ result.out = "raise"

\* C5: EBV of a boolean literal is its value; of a literal with no datatype
\* or datatype xsd:string, whether its lexical form is non-empty; of a
\* literal of a numeric datatype, whether its value is neither NaN nor zero;
\* every other term raises a type error and yields no boolean.
C5_EBVTable ==
    Done("EBV") =>
        LET rt == call.rt
        IN IF isLiteral(rt) /\ rt.dt = XSD_boolean
           THEN result = ReturnBool(rt = True)
           ELSE IF isLiteral(rt) /\ rt.dt \in {NoDatatype, XSD_string}
           THEN result = ReturnBool(rt.lex # <<>>)
           ELSE IF isLiteral(rt) /\ rt.dt \in NumericDTs
           THEN result = ReturnBool(rt.lex # NaNLex /\ rt.lex # <<"0">>)
           ELSE result.out = "raise" /\ result.exc.cls = "SPARQLTypeError"

\* One (op, term) pair after the left operand of an arithmetic node.
Binary(fn) == Done(fn) /\ ~otherIsNone(call.e) /\ Len(call.e.other) = 1
LeftDT(e) == IF isLiteral(e.expr) THEN e.expr.dt ELSE NoDatatype
RightDT(e) == IF isLiteral(e.other[1]) THEN e.other[1].dt ELSE NoDatatype
ReturnsLiteralOf(dt) == result.out = "return" /\ isLiteral(result.val) /\ result.val.dt = dt

\* C6: a duration, dayTimeDuration or yearMonthDuration plus a dateTime
\* succeeds and returns a literal of datatype dateTime.
C6_DurationPlusDateTime ==
    (Binary("AdditiveExpression") /\ LeftDT(call.e) \in XSD_Duration_DTs
     /\ RightDT(call.e) = XSD_dateTime /\ call.e.op[1] = "+")
        => ReturnsLiteralOf(XSD_dateTime)

\* The components of the lexical form of a duration, P[..][T..].
HasTimeComponent(lex) == "T" \in Chars(lex)
HasDateComponent(lex) == lex[2] # "T"
\* The compatibility of a date, time or dateTime with a duration, as
\* claimed.
Compatible(l, r) ==
    CASE l.dt = XSD_date ->
             r.dt = XSD_yearMonthDuration
             \/ (r.dt \in {XSD_dayTimeDuration, XSD_duration} /\ ~HasTimeComponent(r.lex))
      [] l.dt = XSD_time ->
             r.dt \in {XSD_dayTimeDuration, XSD_duration} /\ ~HasDateComponent(r.lex)
      [] l.dt = XSD_dateTime -> TRUE

\* C7: for a date, time or dateTime and a duration of the three kinds,
\* calculateFinalDateTime succeeds exactly when the two are compatible and
\* raises otherwise.
C7_CompatibleExactly ==
    (Done("calculateFinalDateTime") /\ call.left.dt \in XSD_DateTime_DTs
     /\ call.right.dt \in XSD_Duration_DTs)
        => IF Compatible(call.left, call.right) THEN result.out = "return"
           ELSE result.out = "raise"

\* The combinations of the compatibility matrix.
InMatrix(l, op, r) ==
    \/ l = XSD_dateTime /\ r = XSD_dateTime /\ op = "-"
    \/ l \in XSD_DateTime_DTs /\ r \in XSD_Duration_DTs
    \/ l \in XSD_Duration_DTs /\ r = XSD_dateTime /\ op = "+"

\* C8: with a left operand of a date/time or duration datatype,
\* AdditiveExpression ends in a term or in a raised error, and raises for
\* every combination outside the compatibility matrix (date - date,
\* time - time, dateTime + dateTime, duration - dateTime, duration +/-
\* duration among them).
C8_TermOrError ==
    (Done("AdditiveExpression") /\ ~otherIsNone(call.e)
     /\ LeftDT(call.e) \in XSD_DateTime_DTs \cup XSD_Duration_DTs)
        => /\ result.out = "raise" \/ (result.out = "return" /\ result.val # None)
           /\ (Len(call.e.other) = 1
               /\ ~InMatrix(LeftDT(call.e), call.e.op[1], RightDT(call.e)))
                  => result.out = "raise"

\* The wider of two numeric categories, integer < decimal < float < double.
Categories == <<XSD_integer, XSD_decimal, XSD_float, XSD_double>>
CategoryRank(dt) == CHOOSE i \in 1..4 : Categories[i] = dt
Wider(a, b) == IF CategoryRank(a) < CategoryRank(b) THEN b ELSE a

\* C9: for operands of the categories integer, decimal, float and double,
\* the datatype of a binary + or - and of a binary * or / with a non-zero
\* divisor is the wider of the two categories, in either operand order.
C9_ResultIsWider ==
    \A fn \in {"AdditiveExpression", "MultiplicativeExpression"} :
        (Binary(fn) /\ call.e.expr \in NumLits /\ call.e.other[1] \in NumLits
         /\ ~(call.e.op[1] = "/" /\ call.e.other[1].lex = <<"0">>))
            => ReturnsLiteralOf(Wider(call.e.expr.dt, call.e.other[1].dt))

\* C10: register_custom_function without override on an IRI that is in the
\* registry fails and leaves the registry as it was.
C10_RegisterExistingFails ==
    [][(call'.fn = "register_custom_function" /\ ~call'.override
        /\ call'.uri \in DOMAIN registry)
           => (result'.out = "raise" /\ registry' = registry)]_vars

C10_Witness ==
    /\ call.fn = "register_custom_function"
    /\ ~call.override
    /\ result.out = "raise"
    /\ call.uri \in DOMAIN registry
    /\ registry[call.uri] # [func |-> call.func, raw |-> call.raw]
    /\ registry # InitialRegistry

\* C11: after any sequence of registrations and unregistrations, Function
\* for an IRI invokes the function of the most recent registration of the
\* IRI that succeeded and was not removed since, with the arguments of that
\* registration's calling convention (the node and the context when raw,
\* the argument terms otherwise); when there is none it raises the
\* SPARQLError 'Unknown function' and invokes nothing.
C11_DispatchesLatestBinding ==
    call.fn = "Function" =>
        IF call.iri \in DOMAIN bindings
        THEN /\ result.invoked = bindings[call.iri].func
             /\ result.args = (IF bindings[call.iri].raw THEN "e, ctx" ELSE "*e.expr")
        ELSE /\ result = Raise(Exc("SPARQLError", "Unknown function", None))
             /\ "invoked" \notin DOMAIN result

\* Function called for an IRI whose first registration (default_cast, raw)
\* was replaced by a by-value registration of another function.
C11_Witness ==
    /\ call.fn = "Function"
    /\ call.iri = XSD_integer
    /\ result.invoked = "func2"
    /\ result.args = "*e.expr"

\* C12: unregister_custom_function(uri, func) removes the entry of uri, and
\* nothing else, only when the function registered for uri is func; in
\* every other case, an uri without entry included, it raises the
\* ValueError 'This function is not registered' and leaves the registry as
\* it was.
C12_UnregisterOnlyOwn ==
    [][call'.fn = "unregister_custom_function" =>
          IF call'.uri \in DOMAIN registry /\ registry[call'.uri].func = call'.func
          THEN /\ result'.out = "return"
               /\ registry' = [u \in DOMAIN registry \ {call'.uri} |-> registry[u]]
          ELSE /\ result' = Raise(Exc("ValueError", "This function is not registered", None))
               /\ registry' = registry]_vars

\* A node of a chain kind whose slot `other` is not set occurs in t.
RECURSIVE HasBareChain(_)
HasBareChain(t) ==
    IF t.kind \in {"list", "ParseResults"}
    THEN \E i \in 1..Len(t.items) : HasBareChain(t.items[i])
    ELSE IF t.kind # "CompValue"
    THEN FALSE
    ELSE \/ endswithExpression(t.name) /\ Slot(t, "other") = None
         \/ \E k \in DOMAIN t.slots : HasBareChain(t.slots[k])

\* C13: simplify(simplify(T)) = simplify(T) for every expression tree T, and
\* simplify(T) holds no node whose name ends in 'Expression' and whose slot
\* `other` is not set, at any depth and in any slot.
C13_SimplifyIdempotent ==
    Done("simplify") =>
        /\ simplify(result.val) = result.val
        /\ ~HasBareChain(result.val)

\* A chain node without continuation nested in the continuation of a chain
\* node that is kept, its own operand a chain node without continuation.
C13_Witness ==
    /\ Done("simplify")
    /\ call.expr.kind = "CompValue"
    /\ "other" \in DOMAIN call.expr.slots
    /\ \E name \in ChainNames :
           call.expr.slots.other = CompValue(name, [expr |-> CompValue(name, [expr |-> AnIRI])])
    /\ result.val.slots.other = AnIRI

\* C14: Builtin_EXISTS sends the pattern evaluator at most one request and
\* takes at most one solution from it: with a first solution it returns
\* true for EXISTS and false for NOT EXISTS without a second request, and
\* with no solution it returns false for EXISTS and true for NOT EXISTS.
C14_ExistsStopsAtFirst ==
    Done("Builtin_EXISTS") =>
        /\ result.gen.requested <= 1
        /\ result.gen.produced <= 1
        /\ result.val = (IF (call.solutions > 0) = (call.e.name = "Builtin_EXISTS")
                         THEN TrueLiteral ELSE FalseLiteral)

\* EXISTS over a pattern with several solutions: one was taken.
C14_Witness ==
    /\ Done("Builtin_EXISTS")
    /\ call.solutions >= 2
    /\ call.e.name = "Builtin_EXISTS"
    /\ result.gen.produced = 1
    /\ result.val = TrueLiteral

\* C15: for a literal of any numeric datatype d (float, double, decimal,
\* integer or a type derived from integer), ABS, CEIL and FLOOR return a
\* literal of datatype d.
C15_PreservesDatatype ==
    \A fn \in {"Builtin_ABS", "Builtin_CEIL", "Builtin_FLOOR"} :
        (Done(fn) /\ isLiteral(call.expr.arg) /\ call.expr.arg.dt \in NumericDTs)
            => ReturnsLiteralOf(call.expr.arg.dt)

\* The number of seconds of the lexical form [-]P[nD]T[nH][nM][nS] of a
\* dayTimeDuration, scanned from position i with the digits read in n.
RECURSIVE SecondsFrom(_, _, _)
SecondsFrom(lex, i, n) ==
    IF i > Len(lex) THEN 0
    ELSE CASE lex[i] \in {"P", "T"} -> SecondsFrom(lex, i + 1, 0)
           [] lex[i] = "D" -> n * SecondsPerDay + SecondsFrom(lex, i + 1, 0)
           [] lex[i] = "H" -> n * 3600 + SecondsFrom(lex, i + 1, 0)
           [] lex[i] = "M" -> n * 60 + SecondsFrom(lex, i + 1, 0)
           [] lex[i] = "S" -> n + SecondsFrom(lex, i + 1, 0)
           [] OTHER -> SecondsFrom(lex, i + 1, n * 10 + DigitVal(lex[i]))
DurationSeconds(lex) ==
    IF lex # <<>> /\ lex[1] = "-" THEN -SecondsFrom(lex, 2, 0) ELSE SecondsFrom(lex, 1, 0)

\* C16: Builtin_TIMEZONE of a dateTime with a UTC offset returns a
\* dayTimeDuration literal whose value is that offset, hours and minutes,
\* with its sign, and PT0S for the offset zero; it raises for a dateTime
\* without timezone.
C16_TimezoneIsOffset ==
    (Done("Builtin_TIMEZONE") /\ isLiteral(call.e.arg) /\ call.e.arg.dt = XSD_dateTime)
        => LET dt == toPython(call.e.arg)
           IN IF tzinfo(dt) = None THEN result.out = "raise"
              ELSE /\ ReturnsLiteralOf(XSD_dayTimeDuration)
                   /\ DurationSeconds(result.val.lex) = dt.tzinfo.minutes * 60
                   /\ (dt.tzinfo.minutes = 0
                          => result.val.lex = <<"P", "T", "0", "S">>)

\* The pairs of node e from pair i on, applied one after the other to acc,
\* each as AdditiveExpression applies a single pair.
RECURSIVE ApplyPairs(_, _, _)
ApplyPairs(e, acc, i) ==
    IF i > Len(e.other) THEN Return(acc)
    ELSE LET r == AdditiveExpression([expr |-> acc, op |-> <<e.op[i]>>,
                                      other |-> <<e.other[i]>>])
         IN IF r.out = "raise" THEN r ELSE ApplyPairs(e, r.val, i + 1)

\* C17: AdditiveExpression on a left operand of a date/time or duration
\* datatype with two or more (op, term) pairs raises an error or returns the
\* result of applying every pair; no pair is dropped.
C17_NoPairDropped ==
    (/\ Done("AdditiveExpression")
     /\ ~otherIsNone(call.e)
     /\ Len(call.e.other) >= 2
     /\ hasDatatype(call.e.expr)
     /\ call.e.expr.dt \in XSD_DateTime_DTs \cup XSD_Duration_DTs)
        => \/ result.out = "raise"
           \/ result = ApplyPairs(call.e, call.e.expr, 1)
====
